---- MODULE Spec2Model ----
(***************************************************************************)
(* Model of stagehand's durable posting queue (queue/queueManager.js, the  *)
(* multi-service QueueManager of lines 1-415, with the move-to-top handler *)
(* of bot/telegramBot.js) and of its media cache (utils/mediaCache.js).    *)
(*                                                                         *)
(* The specifications share the variables:                                 *)
(*   Spec         the queue store in normal operation under one            *)
(*                configuration: add, mark, remove, move to top, tick.     *)
(*   SpecRestart  the queue store across restarts: the files may have been *)
(*                damaged while the process was down and the set of        *)
(*                destinations may change.                                 *)
(*   SpecFault    the queue store with disk writes that fail and with a    *)
(*                process that dies in the middle of a save.               *)
(*   SpecConfig   the scheduler and its configuration: /schedule,          *)
(*                setImagesPerInterval, and the cron task firing.          *)
(*   SpecDeliver  items arriving and the cron task firing, nothing else.   *)
(*   SpecCache    the media cache: processMediaUrl over a small set of     *)
(*                locators, a clock and the remote hosts' answers.         *)
(*   SpecSweep    the media cache with its eviction sweep.                 *)
(*   SpecResolve  the kind and extension resolver of downloadMedia over    *)
(*                every locator and Content-Type of the model.             *)
(*   SpecOrder    the operator's commands over a loaded queue of three     *)
(*                items: remove, move to top, mark, add.                   *)
(*   SpecBoot     the start of the process: links arrive while the         *)
(*                un-awaited initial load is under way.                    *)
(*   SpecPost     submissions, the eviction sweep and the cron task.       *)
(*   SpecOverlap  processMediaUrl calls that overlap a download in flight. *)
(*   SpecSaves    saveQueueToDisk calls in flight together.                *)
(***************************************************************************)
EXTENDS Integers, Sequences, FiniteSets, TLC

\* ------------------------------------------------------------------ bounds
MaxQueue == 2        \* longest in-memory queue explored
MaxClock == 2        \* Date.now() values handed out to new items
MaxPerTick == 2      \* largest imagesPerInterval explored
MaxFaults == 1       \* failed writes / crashes per behaviour (SpecFault)
MaxStored == 3       \* items in the queue file at a start (SpecOrder)
MaxSaves == 3        \* saves started by the timer and by shutdown (SpecSaves)

\* --------------------------------------------------------------- helpers
Range(s) == { s[i] : i \in DOMAIN s }

\* where Array.prototype.splice(index, 1) starts: a negative index counts
\* from the end of the array
SpliceStart(s, index) ==
  IF index < 0 THEN (IF Len(s) + index < 0 THEN 0 ELSE Len(s) + index) ELSE index

\* Array.prototype.splice(index, 1) with a 0-based index: the array left
RemoveAt(s, index) ==
  LET k == SpliceStart(s, index)
  IN IF k >= Len(s) THEN s
     ELSE [ i \in 1..(Len(s) - 1) |-> IF i <= k THEN s[i] ELSE s[i + 1] ]

\* the JavaScript values undefined and null of string-valued fields
Undefined == "undefined"
Null == "null"

\* ------------------------------------------------------- configuration
\* this.postServices: 'telegram' always, 'discord' when config.discord.enabled
PostServicesOf(discordEnabled) ==
  IF discordEnabled THEN <<"telegram", "discord">> ELSE <<"telegram">>

\* service names callers pass to markPostedByService ('mastodon': unknown)
ServiceNames == {"telegram", "discord", "mastodon"}

\* ----------------------------------------------------------------- items
\* string-valued payload fields (the scrapers' records)
StringFields == {"title", "name", "originalImageUrl", "downloadUrl", "imageUrl"}

\* String.prototype.startsWith('http') on the URLs used here
StartsWithHttp(u) == u \in {"http://a", "http://b"}

HasField(item, f) == f \in DOMAIN item /\ item[f] # Undefined

\* the payloads handed to addToQueue; the second carries its own id,
\* timestamp and postedTo, and a non-http originalImageUrl
PlainPayload == [title |-> "a", name |-> Undefined, originalImageUrl |-> "http://a"]

Payloads ==
  { PlainPayload,
    [title |-> "b", originalImageUrl |-> "/cache/b", imageUrl |-> "http://b",
     id |-> 0, timestamp |-> 0,
     postedTo |-> [telegram |-> TRUE, discord |-> TRUE]] }

\* addToQueue lines 164-175
SourceImgUrl(imageData) ==
  IF HasField(imageData, "originalImageUrl") /\ StartsWithHttp(imageData.originalImageUrl)
    THEN imageData.originalImageUrl
  ELSE IF HasField(imageData, "downloadUrl") /\ StartsWithHttp(imageData.downloadUrl)
    THEN imageData.downloadUrl
  ELSE IF HasField(imageData, "imageUrl") /\ StartsWithHttp(imageData.imageUrl)
    THEN imageData.imageUrl
  ELSE Null

\* addToQueue lines 159-162
FreshPostedTo(services) == [ s \in Range(services) |-> FALSE ]

\* the same literal with the payload spread last, so that it wins
NewItemPayloadLast(imageData, now, services) ==
  LET gen == [ timestamp |-> now, id |-> now,
               postedTo |-> FreshPostedTo(services),
               sourceImgUrl |-> SourceImgUrl(imageData) ]
  IN [ f \in (DOMAIN imageData) \cup (DOMAIN gen) |->
         IF f \in DOMAIN imageData THEN imageData[f] ELSE gen[f] ]

\* the object literal of addToQueue lines 179-185: the payload spread first,
\* then timestamp, id, postedTo and sourceImgUrl, which override it
NewItem(imageData, now, services) ==
  LET gen == [ timestamp |-> now, id |-> now,
               postedTo |-> FreshPostedTo(services),
               sourceImgUrl |-> SourceImgUrl(imageData) ]
  IN [ f \in (DOMAIN imageData) \cup (DOMAIN gen) |->
         IF f \in DOMAIN gen THEN gen[f] ELSE imageData[f] ]

\* item.postedTo && item.postedTo[service] === true
PostedFlag(item, service) ==
  /\ "postedTo" \in DOMAIN item
  /\ service \in DOMAIN item.postedTo
  /\ item.postedTo[service] = TRUE

\* ------------------------------------------------------------------ files
Absent == [kind |-> "absent", hasQueue |-> FALSE, queue |-> <<>>]
Garbage == [kind |-> "garbage", hasQueue |-> FALSE, queue |-> <<>>]
NoQueueDoc == [kind |-> "json", hasQueue |-> FALSE, queue |-> <<>>]

\* JSON.stringify drops the properties whose value is undefined
Jsonify(item) ==
  [ f \in { g \in DOMAIN item : ~(g \in StringFields /\ item[g] = Undefined) } |->
      item[f] ]

\* fs.writeJson(file, this.queueData): the document { queue: [...] }
Ser(q) ==
  [kind |-> "json", hasQueue |-> TRUE, queue |-> [ i \in 1..Len(q) |-> Jsonify(q[i]) ]]

\* an item written by the single-service QueueManager (no postedTo)
LegacyItem == [title |-> "old", timestamp |-> 0, id |-> 0, originalImageUrl |-> "/cache/old"]

\* what the queue file and its backup hold when the program first starts
InitialFiles == { Absent, Ser(<<LegacyItem>>) }

\* the files of the store: queue.json, queue.json.backup, queue.json.temp
Files(p, b, t) == [primary |-> p, backup |-> b, temp |-> t]

\* ------------------------------------------------------------------- save
\* how one saveQueueToDisk call ends: every write succeeds, or one of its
\* three awaited steps rejects.  fs.writeJson opens the file for writing
\* (truncating it) and then writes: a failure to open leaves the file as it
\* was, a failure while writing leaves a partial document.  fs-extra's
\* move(src, dest, {overwrite: true}) removes dest and then renames src.
SaveOutcomes ==
  {"ok", "backupOpenFails", "backupWriteFails", "tempWriteFails",
   "moveRemoveFails", "moveRenameFails"}

\* where the process can die inside saveQueueToDisk: while or after writing
\* the backup, while or after writing the temp file, and inside fs.move
\* after the queue file was removed and before the temp file was renamed
CrashPoints ==
  {"backupPartial", "backupWritten", "tempPartial", "tempWritten", "primaryRemoved"}

\* a save that writes the backup and the temp file and never renames
SaveWithoutRename(q, d, o) ==
  [disk |-> [d EXCEPT !.backup = Ser(q), !.temp = Ser(q)], ok |-> TRUE, crashed |-> FALSE]

\* saveQueueToDisk lines 135-150: the files afterwards, the value returned,
\* and whether the process died in the call
SaveQueueToDisk(q, d, o) ==
  CASE o = "ok" ->
         [disk |-> Files(Ser(q), Ser(q), Absent), ok |-> TRUE, crashed |-> FALSE]
    [] o = "backupOpenFails" ->
         [disk |-> d, ok |-> FALSE, crashed |-> FALSE]
    [] o = "backupWriteFails" ->
         [disk |-> [d EXCEPT !.backup = Garbage], ok |-> FALSE, crashed |-> FALSE]
    [] o = "tempWriteFails" ->
         [disk |-> [d EXCEPT !.backup = Ser(q), !.temp = Garbage],
          ok |-> FALSE, crashed |-> FALSE]
    [] o = "moveRemoveFails" ->
         [disk |-> [d EXCEPT !.backup = Ser(q), !.temp = Ser(q)],
          ok |-> FALSE, crashed |-> FALSE]
    [] o = "moveRenameFails" ->
         [disk |-> Files(Absent, Ser(q), Ser(q)), ok |-> FALSE, crashed |-> FALSE]
    [] o = "backupPartial" ->
         [disk |-> [d EXCEPT !.backup = Garbage], ok |-> FALSE, crashed |-> TRUE]
    [] o = "backupWritten" ->
         [disk |-> [d EXCEPT !.backup = Ser(q)], ok |-> FALSE, crashed |-> TRUE]
    [] o = "tempPartial" ->
         [disk |-> [d EXCEPT !.backup = Ser(q), !.temp = Garbage],
          ok |-> FALSE, crashed |-> TRUE]
    [] o = "tempWritten" ->
         [disk |-> [d EXCEPT !.backup = Ser(q), !.temp = Ser(q)],
          ok |-> FALSE, crashed |-> TRUE]
    [] o = "primaryRemoved" ->
         [disk |-> Files(Absent, Ser(q), Ser(q)), ok |-> FALSE, crashed |-> TRUE]

\* a saveQueueToDisk call in flight, line 138 reached: fs.writeJson has
\* serialised this.queueData and is writing the backup file
StartSave(q) == [pc |-> "backup", data |-> Ser(q), ok |-> FALSE]

\* saveQueueToDisk lines 135-150, one await at a time, for the call s over
\* the queue q and the files d as they are when the step runs: the backup is
\* written (and the temp file's document serialised, line 142); the temp
\* file is written; fs.move stats the temp file and removes the queue file;
\* fs.move renames the temp file.  A missing temp file makes fs.move throw
\* and the call return false (lines 146-149).
SaveStep(s, q, d) ==
  CASE s.pc = "backup" ->
         [save |-> [s EXCEPT !.pc = "temp", !.data = Ser(q)],
          disk |-> [d EXCEPT !.backup = s.data]]
    [] s.pc = "temp" ->
         [save |-> [s EXCEPT !.pc = "move"], disk |-> [d EXCEPT !.temp = s.data]]
    [] s.pc = "move" ->
         IF d.temp.kind = "absent"
           THEN [save |-> [s EXCEPT !.pc = "done", !.ok = FALSE], disk |-> d]
           ELSE [save |-> [s EXCEPT !.pc = "rename"],
                 disk |-> [d EXCEPT !.primary = Absent]]
    [] s.pc = "rename" ->
         IF d.temp.kind = "absent"
           THEN [save |-> [s EXCEPT !.pc = "done", !.ok = FALSE], disk |-> d]
           ELSE [save |-> [s EXCEPT !.pc = "done", !.ok = TRUE],
                 disk |-> [d EXCEPT !.primary = d.temp, !.temp = Absent]]
    [] OTHER -> [save |-> s, disk |-> d]

\* ------------------------------------------------------------------- load
\* fs.readJson succeeds and the document has a queue array (lines 98, 110)
ValidQueueFile(f) == f.kind = "json" /\ f.hasQueue

\* lines 123-125: start from an empty queue and persist it
LoadFresh(d, o) ==
  [queue |-> <<>>, disk |-> SaveQueueToDisk(<<>>, d, o).disk, via |-> "fresh"]

\* a load that takes the backup's queue and leaves the queue file as it is
LoadWithoutRewrite(d, o) ==
  IF d.primary.kind # "absent"
    THEN IF d.primary.kind = "json"
           THEN IF d.primary.hasQueue
                  THEN [queue |-> d.primary.queue, disk |-> d, via |-> "primary"]
                  ELSE LoadFresh(d, o)
           ELSE IF d.backup.kind # "absent" /\ ValidQueueFile(d.backup)
                  THEN [queue |-> d.backup.queue, disk |-> d, via |-> "backup"]
                  ELSE LoadFresh(d, o)
    ELSE LoadFresh(d, o)

\* loadQueueFromDisk lines 92-130: the queue in memory, the files and the
\* tier that supplied the queue; o is the outcome of the save it performs
LoadQueueFromDisk(d, o) ==
  IF d.primary.kind # "absent"
    THEN IF d.primary.kind = "json"
           THEN IF d.primary.hasQueue
                  THEN [queue |-> d.primary.queue, disk |-> d, via |-> "primary"]
                  ELSE LoadFresh(d, o)
           ELSE \* readJson threw: the catch block of lines 102-120
                IF d.backup.kind # "absent" /\ ValidQueueFile(d.backup)
                  THEN [queue |-> d.backup.queue,
                        disk |-> SaveQueueToDisk(d.backup.queue, d, o).disk,
                        via |-> "backup"]
                  ELSE LoadFresh(d, o)
    ELSE LoadFresh(d, o)

\* a JavaScript truthiness test of a string-valued field
Truthy(item, f) == HasField(item, f) /\ item[f] # Null /\ item[f] # ""

\* the loop body of initializeServiceTracking lines 44-67 for one item
TrackItem(item, services) ==
  LET withPosted ==
        IF "postedTo" \in DOMAIN item THEN item
        ELSE [ f \in (DOMAIN item) \cup {"postedTo"} |->
                 IF f = "postedTo" THEN FreshPostedTo(services) ELSE item[f] ]
      src ==
        IF Truthy(item, "sourceImgUrl") THEN Undefined
        ELSE IF Truthy(item, "originalImageUrl") THEN item.originalImageUrl
        ELSE IF Truthy(item, "downloadUrl") THEN item.downloadUrl
        ELSE Undefined
  IN IF src = Undefined THEN withPosted
     ELSE [ f \in (DOMAIN withPosted) \cup {"sourceImgUrl"} |->
              IF f = "sourceImgUrl" THEN src ELSE withPosted[f] ]

\* initializeServiceTracking lines 41-74: the queue afterwards
InitializeServiceTracking(q, services) ==
  [ i \in 1..Len(q) |-> TrackItem(q[i], services) ]

\* ------------------------------------------------------ store operations
\* hasBeenPostedByService lines 252-259
HasBeenPostedByService(q, index, service) ==
  IF Len(q) = 0 \/ index >= Len(q) THEN FALSE
  ELSE index >= 0 /\ PostedFlag(q[index + 1], service)

\* lines 221-225: postedTo[service] = true, creating the map when missing
SetPosted(item, service) ==
  LET old == IF "postedTo" \in DOMAIN item THEN item.postedTo ELSE << >>
      new == [ s \in (DOMAIN old) \cup {service} |->
                 IF s = service THEN TRUE ELSE old[s] ]
  IN [ f \in (DOMAIN item) \cup {"postedTo"} |->
         IF f = "postedTo" THEN new ELSE item[f] ]

\* some service has posted the item
AnyPosted(item, services) == \E s \in Range(services) : PostedFlag(item, s)

\* lines 228-230
AllPosted(item, services) == \A s \in Range(services) : PostedFlag(item, s)

\* how an operation's own saveQueueToDisk call ended
SaveStatus(r) == IF r.crashed THEN "crashed" ELSE IF r.ok THEN "saved" ELSE "failed"

\* markPostedByService lines 208-244: queue, files, returned value and save
MarkPostedByService(q, services, index, service, d, o) ==
  IF Len(q) = 0 \/ index >= Len(q)
    THEN [queue |-> q, disk |-> d, ok |-> FALSE, save |-> "none"]
  ELSE IF service \notin Range(services)
    THEN [queue |-> q, disk |-> d, ok |-> FALSE, save |-> "none"]
  ELSE IF index < 0 \* queue[index] is undefined: TypeError, caught at line 240
    THEN [queue |-> q, disk |-> d, ok |-> FALSE, save |-> "none"]
  ELSE
    LET marked == SetPosted(q[index + 1], service)
        q1 == IF AllPosted(marked, services)
                THEN RemoveAt(q, index)
                ELSE [q EXCEPT ![index + 1] = marked]
        sv == SaveQueueToDisk(q1, d, o)
    IN [queue |-> q1, disk |-> sv.disk, ok |-> TRUE, save |-> SaveStatus(sv)]

\* removeFromQueue lines 281-294: queue, files, whether an item came back
RemoveFromQueue(q, index, d, o) ==
  IF Len(q) = 0 \/ index >= Len(q)
    THEN [queue |-> q, disk |-> d, ok |-> FALSE, save |-> "none"]
  ELSE LET q1 == RemoveAt(q, index)
           sv == SaveQueueToDisk(q1, d, o)
       IN [queue |-> q1, disk |-> sv.disk, ok |-> TRUE, save |-> SaveStatus(sv)]

\* a move that exchanges the item with the front item
MoveToFrontSwap(q, index) ==
  [ i \in 1..Len(q) |->
      IF i = 1 THEN q[index + 1] ELSE IF i = index + 1 THEN q[1] ELSE q[i] ]

\* the 'top' callback of bot/telegramBot.js lines 695-700: splice(index, 1)
\* and unshift(item)
MoveToFront(q, index) == <<q[index + 1]>> \o RemoveAt(q, index)

\* --------------------------------------------------------------- scheduler
ServiceSet == {"telegram", "discord"}

\* the object nextImage refers to after markPostedByService(0, service): the
\* same object as the item at index 0 while that item is still the one
\* peeked, so the mark shows on it; a different object afterwards
AfterMark(nextImage, q, service) ==
  IF Len(q) > 0 /\ q[1].id = nextImage.id THEN SetPosted(nextImage, service)
  ELSE nextImage

\* the id of the item at index 0, if there is one
FrontId(q) == IF Len(q) > 0 THEN {q[1].id} ELSE {}

\* the inner loop of the tick callback, lines 351-375, from the k-th service
\* on: nextImage is the object peeked at line 342, posts[pass][service] is
\* what the destination's post function resolves to in this pass.  A log
\* entry records the item handed to the post function, its own flag and the
\* front of the queue at the time of the call, and the item the mark fell on.
RECURSIVE TickServices(_, _, _, _, _, _)
TickServices(st, nextImage, services, k, pass, posts) ==
  IF k > Len(services) THEN st
  ELSE
    LET service == services[k] IN
    IF HasBeenPostedByService(st.queue, 0, service)
      THEN TickServices(st, nextImage, services, k + 1, pass, posts)
    ELSE
      LET entry == [pass |-> pass, id |-> nextImage.id, service |-> service,
                    ok |-> posts[pass][service],
                    flag |-> PostedFlag(nextImage, service),
                    front |-> FrontId(st.queue),
                    marked |-> {}]
      IN IF posts[pass][service]
           THEN LET m == MarkPostedByService(st.queue, services, 0, service, st.disk, "ok")
                    done == [entry EXCEPT !.marked = IF m.ok THEN FrontId(st.queue) ELSE {}]
                IN TickServices([st EXCEPT !.queue = m.queue, !.disk = m.disk,
                                          !.log = Append(st.log, done),
                                          !.any = TRUE],
                                AfterMark(nextImage, st.queue, service),
                                services, k + 1, pass, posts)
           ELSE TickServices([st EXCEPT !.log = Append(st.log, entry)],
                             nextImage, services, k + 1, pass, posts)

\* the outer loop without the break of line 379
RECURSIVE TickPassesNoBreak(_, _, _, _, _)
TickPassesNoBreak(st, services, i, n, posts) ==
  IF i > n THEN st
  ELSE IF Len(st.queue) = 0 THEN st
  ELSE
    LET r == TickServices([st EXCEPT !.any = FALSE, !.start = st.queue],
                          st.queue[1], services, 1, i, posts)
    IN TickPassesNoBreak(r, services, i + 1, n, posts)

\* the outer loop of the tick callback, lines 340-381, from pass i on
RECURSIVE TickPasses(_, _, _, _, _)
TickPasses(st, services, i, n, posts) ==
  IF i > n THEN st
  ELSE IF Len(st.queue) = 0 THEN st
  ELSE
    LET r == TickServices([st EXCEPT !.any = FALSE, !.start = st.queue],
                          st.queue[1], services, 1, i, posts)
    IN IF ~r.any THEN r ELSE TickPasses(r, services, i + 1, n, posts)

\* ----------------------------------------------- scheduler configuration
\* A JavaScript value handed to setImagesPerInterval: a number (twice its
\* value, so that halves are representable), NaN, or a string of digits.
JsNumber(twice) == [type |-> "number", nan |-> FALSE, twice |-> twice]
JsInt(n) == JsNumber(2 * n)
NaN == [type |-> "number", nan |-> TRUE, twice |-> 0]
JsString(n) == [type |-> "string", nan |-> FALSE, twice |-> 2 * n]

\* count < n for a number count (a comparison with NaN is false)
LessThan(count, n) == ~count.nan /\ count.twice < 2 * n

\* the value is a number with a positive integer value
IsPositiveInteger(v) ==
  v.type = "number" /\ ~v.nan /\ v.twice >= 2 /\ v.twice % 2 = 0

\* how often the body of `for (let i = 0; i < n; i++)` of line 340 runs
LoopCount(n) ==
  IF n.nan \/ n.twice <= 0 THEN 0 ELSE (n.twice + 1) \div 2

\* setImagesPerInterval lines 318-324: the value afterwards and the result
SetImagesPerInterval(current, count) ==
  IF count.type # "number" \/ LessThan(count, 1)
    THEN [imagesPerInterval |-> current, ok |-> FALSE]
  ELSE [imagesPerInterval |-> count, ok |-> TRUE]

\* a cron expression is the sequence of its fields
DefaultCronSchedule == <<"0", "*/1", "*", "*", "*">>
CronExprs ==
  { DefaultCronSchedule, <<"*/5", "*", "*", "*", "*">>,
    <<"61", "*", "*", "*", "*">>, <<"every", "hour">> }

\* cron.validate: five or six fields (seconds first when six), each within
\* the range of its position; "0" is no day of the month and no month
CronValidate(e) ==
  /\ Len(e) \in {5, 6}
  /\ \A i \in DOMAIN e :
       LET pos == i + (6 - Len(e)) IN
       \/ e[i] \in {"*", "*/1", "*/5"}
       \/ e[i] = "0" /\ pos \notin {4, 5}

\* this.scheduledTask: null before startScheduler, then a cron task that is
\* running or stopped and fires on the expression it was created with
NoTask == [set |-> FALSE, running |-> FALSE, schedule |-> << >>]
RunningTask(e) == [set |-> TRUE, running |-> TRUE, schedule |-> e]
StopTask(task) == IF task.set THEN [task EXCEPT !.running = FALSE] ELSE task

\* startScheduler lines 331-389: cron.schedule throws on an invalid expression
StartScheduler(task, schedule) ==
  IF CronValidate(schedule) THEN RunningTask(schedule) ELSE StopTask(task)

\* setCronSchedule lines 300-316: the task, this.cronSchedule and the result
SetCronSchedule(task, current, schedule) ==
  IF CronValidate(schedule)
    THEN [task |-> StopTask(task), cronSchedule |-> schedule, ok |-> TRUE]
  ELSE [task |-> StopTask(task), cronSchedule |-> current, ok |-> FALSE]

\* ============================================================ media cache
\* A locator is the sequence of the tokens of its URL: "/", ".", "?" and the
\* words between them.  The string operations of mediaCache.js (includes,
\* the regular expressions, path.extname) are computed over the tokens.
MaxCacheAgeDays == 2   \* config.maxCacheAgeDays (MAX_CACHE_AGE_DAYS=2)
MaxTime == 3           \* days the clock runs
MaxCalls == 2          \* processMediaUrl calls per behaviour

UrlMedia == <<"https:", "/", "/", "cdn", ".", "example", ".", "com", "/", "media">>
UrlClip == <<"https:", "/", "/", "cdn", ".", "example", ".", "com", "/", "clip", ".", "webm">>
UrlBsky == <<"https:", "/", "/", "video", ".", "bsky", ".", "app", "/", "watch", "/",
             "playlist", ".", "m3u8">>
Locators == {UrlMedia, UrlClip, UrlBsky}

\* more locators for the resolver: a /video/ path segment, an upper-case
\* extension, query strings, and a locator without a path
UrlVideoDir == <<"https:", "/", "/", "cdn", ".", "example", ".", "com", "/", "video", "/",
                 "thumb">>
UrlUpper == <<"https:", "/", "/", "cdn", ".", "example", ".", "com", "/", "CLIP", ".", "WEBM">>
UrlPngQuery == <<"https:", "/", "/", "cdn", ".", "example", ".", "com", "/", "pic", ".", "png",
                 "?", "size=large">>
UrlBlobQuery == <<"https:", "/", "/", "cdn", ".", "example", ".", "com", "/", "blob", "?",
                  "v=1", ".", "2">>
UrlHost == <<"https:", "/", "/", "cdn", ".", "example", ".", "com">>
ResolverLocators ==
  Locators \cup {UrlVideoDir, UrlUpper, UrlPngQuery, UrlBlobQuery, UrlHost}

\* String.prototype.toLowerCase on a token or a content type
Lower(w) ==
  CASE w = "Video/MP4" -> "video/mp4"
    [] w = "WEBM" -> "webm"
    [] OTHER -> w

\* String.prototype.includes: pat occurs in url as a run of tokens
Includes(url, pat) ==
  \E i \in 1..(Len(url) - Len(pat) + 1) : SubSeq(url, i, i + Len(pat) - 1) = pat

\* the same, ignoring case (the /i flag)
IncludesNoCase(url, pat) ==
  Includes([ i \in DOMAIN url |-> Lower(url[i]) ], pat)

\* the position of the last token t of s at or before position n (0: none)
RECURSIVE LastIndexOf(_, _, _)
LastIndexOf(s, t, n) ==
  IF n = 0 THEN 0 ELSE IF s[n] = t THEN n ELSE LastIndexOf(s, t, n - 1)

\* the path without its trailing separators
RECURSIVE StripTrailingSlashes(_)
StripTrailingSlashes(u) ==
  IF Len(u) > 0 /\ u[Len(u)] = "/" THEN StripTrailingSlashes(SubSeq(u, 1, Len(u) - 1))
  ELSE u

\* path.extname: from the last "." of the last path segment to its end;
\* empty when the segment has no "." or starts with its only "."
ExtName(url) ==
  LET u == StripTrailingSlashes(url)
      slash == LastIndexOf(u, "/", Len(u))
      dot == LastIndexOf(u, ".", Len(u))
  IN IF dot = 0 \/ dot < slash \/ dot = slash + 1 THEN <<>>
     ELSE SubSeq(u, dot, Len(u))

LowerExt(ext) == [ i \in DOMAIN ext |-> Lower(ext[i]) ]

\* the Content-Type values the hosts answer with; NoType: no such header
NoType == "none"
ContentTypes == {"image/png", "video/mp4", "video/quicktime", "Video/MP4", "text/html"}

\* String.prototype.startsWith('video/') and startsWith('image/')
StartsWithVideo(ct) == ct \in {"video/mp4", "video/quicktime", "video/webm"}
StartsWithImage(ct) ==
  ct \in {"image/png", "image/jpeg", "image/jpg", "image/gif", "image/webp", "image/bmp"}

\* getFileExtension lines 139-174
GetFileExtension(url, contentType) ==
  LET urlExt == LowerExt(ExtName(url)) IN
  IF Len(urlExt) > 1 THEN urlExt
  ELSE IF contentType # NoType THEN
    CASE Lower(contentType) \in {"image/jpeg", "image/jpg"} -> <<".", "jpg">>
      [] Lower(contentType) = "image/png" -> <<".", "png">>
      [] Lower(contentType) = "image/gif" -> <<".", "gif">>
      [] Lower(contentType) = "image/webp" -> <<".", "webp">>
      [] Lower(contentType) = "video/mp4" -> <<".", "mp4">>
      [] Lower(contentType) = "video/webm" -> <<".", "webm">>
      [] OTHER -> IF StartsWithImage(contentType) THEN <<".", "jpg">>
                  ELSE IF StartsWithVideo(contentType) THEN <<".", "mp4">>
                  ELSE <<".", "bin">>
  ELSE <<".", "bin">>

VideoExtensions ==
  { <<".", "mp4">>, <<".", "webm">>, <<".", "mov">>, <<".", "avi">>, <<".", "mkv">> }

\* /bluesky.*video/i: a "bluesky" token with a "video" token after it
BlueskyThenVideo(url) ==
  \E i \in DOMAIN url, j \in DOMAIN url :
    i < j /\ Lower(url[i]) = "bluesky" /\ Lower(url[j]) = "video"

\* isVideoUrl lines 182-204
IsVideoUrl(url, contentType) ==
  IF LowerExt(ExtName(url)) \in VideoExtensions THEN TRUE
  ELSE IF contentType # NoType /\ StartsWithVideo(Lower(contentType)) THEN TRUE
  ELSE \/ IncludesNoCase(url, <<"/", "video", "/">>)
       \/ IncludesNoCase(url, <<".", "mp4">>)
       \/ IncludesNoCase(url, <<".", "webm">>)
       \/ BlueskyThenVideo(url)

\* getHashedFilename line 105-107: MD5 of the locator, here the locator
\* itself (distinct locators have distinct file names)
GetHashedFilename(url) == url

\* a cache file: directory, name, extension, mtime, and whether its content
\* was written to the end
CacheFile(dir, hash, ext, mtime, complete) ==
  [dir |-> dir, hash |-> hash, ext |-> ext, mtime |-> mtime, complete |-> complete]
PathOf(f) == [dir |-> f.dir, hash |-> f.hash, ext |-> f.ext]

\* isValidCacheFile lines 114-131 at time t over the files fs
IsValidCacheFile(fs, path, t) ==
  \E f \in fs : PathOf(f) = path /\ t - f.mtime <= MaxCacheAgeDays

\* writing a file replaces what the path held
WriteFile(fs, path, t, complete) ==
  { f \in fs : PathOf(f) # path } \cup
    { CacheFile(path.dir, path.hash, path.ext, t, complete) }

\* how the HEAD request ends: it fails, or answers with a Content-Type or
\* without one
HeadResults == {"fails", NoType} \cup ContentTypes
\* how the GET request and the write of its body end
GetResults == {"ok", "requestFails", "writerError"}

\* downloadMedia lines 212-297 at time t: the files afterwards, whether it
\* resolved, what it resolved to, and the requests it made
DownloadMedia(fs, url, isVideoArg, t, head, get, getType) ==
  LET isBlueskyUrl == Includes(url, <<"bsky", ".", "social">>)
                        \/ Includes(url, <<"video", ".", "bsky", ".", "app">>)
      bskyVideo == isBlueskyUrl /\ Includes(url, <<"video", ".", "bsky", ".", "app">>)
      contentType0 ==
        IF ~isBlueskyUrl THEN (IF head = "fails" THEN NoType ELSE head)
        ELSE IF bskyVideo THEN "video/mp4"
        ELSE IF Includes(url, <<"getBlob">>) THEN "image/jpeg"
        ELSE NoType
      isVideo0 == isVideoArg \/ bskyVideo
      isVideo == IF ~isVideo0 THEN IsVideoUrl(url, contentType0) ELSE TRUE
      path == [dir |-> IF isVideo THEN "videos" ELSE "images",
               hash |-> GetHashedFilename(url),
               ext |-> GetFileExtension(url, contentType0)]
      probes == IF isBlueskyUrl THEN 0 ELSE 1
  IN IF IsValidCacheFile(fs, path, t)
       THEN [files |-> fs, ok |-> TRUE, filePath |-> path, contentType |-> contentType0,
             isVideo |-> isVideo, probes |-> probes, downloads |-> 0]
     ELSE IF get = "requestFails"
       THEN [files |-> fs, ok |-> FALSE, filePath |-> path, contentType |-> contentType0,
             isVideo |-> isVideo, probes |-> probes, downloads |-> 1]
     ELSE IF get = "writerError"
       THEN [files |-> WriteFile(fs, path, t, FALSE), ok |-> FALSE, filePath |-> path,
             contentType |-> contentType0, isVideo |-> isVideo,
             probes |-> probes, downloads |-> 1]
     ELSE [files |-> WriteFile(fs, path, t, TRUE), ok |-> TRUE, filePath |-> path,
           contentType |-> IF contentType0 = NoType THEN getType ELSE contentType0,
           isVideo |-> isVideo, probes |-> probes, downloads |-> 1]

\* how the encoder ends: it finishes, it fails after it began to write the
\* output file, or it fails before it created one
EncResults == {"ok", "fails", "failsBeforeOutput"}

\* transcodeVideo lines 304-345: the output path has the input's base name
\* and the extension .mp4; enc is how the encoder ends
TranscodeVideo(fs, inputPath, t, enc) ==
  LET outputPath == [dir |-> "transcoded", hash |-> inputPath.hash, ext |-> <<".", "mp4">>]
  IN IF IsValidCacheFile(fs, outputPath, t)
       THEN [files |-> fs, ok |-> TRUE, path |-> outputPath, transcodes |-> 0]
     ELSE IF enc = "ok"
       THEN [files |-> WriteFile(fs, outputPath, t, TRUE), ok |-> TRUE,
             path |-> outputPath, transcodes |-> 1]
     ELSE IF enc = "fails"
       THEN [files |-> WriteFile(fs, outputPath, t, FALSE), ok |-> FALSE,
             path |-> outputPath, transcodes |-> 1]
     ELSE [files |-> fs, ok |-> FALSE, path |-> outputPath, transcodes |-> 1]

\* processMediaUrl lines 353-365
ProcessMediaUrl(fs, url, isVideoArg, t, head, get, getType, enc) ==
  LET d == DownloadMedia(fs, url, isVideoArg, t, head, get, getType)
  IN IF ~d.ok
       THEN [files |-> d.files, ok |-> FALSE, localPath |-> d.filePath,
             probes |-> d.probes, downloads |-> d.downloads, transcodes |-> 0]
     ELSE IF d.isVideo
       THEN LET x == TranscodeVideo(d.files, d.filePath, t, enc)
            IN [files |-> x.files, ok |-> x.ok, localPath |-> x.path,
                probes |-> d.probes, downloads |-> d.downloads,
                transcodes |-> x.transcodes]
     ELSE [files |-> d.files, ok |-> TRUE, localPath |-> d.filePath,
           probes |-> d.probes, downloads |-> d.downloads, transcodes |-> 0]

\* cleanDir without the boundary: a file as old as the limit goes too
CleanDirAtLimit(fs, dir, t) ==
  { f \in fs : f.dir = dir => ~(t - f.mtime >= MaxCacheAgeDays) }

\* cleanDir lines 73-90 at sweep time t: the files afterwards
CleanDir(fs, dir, t) ==
  { f \in fs : f.dir = dir => ~(t - f.mtime > MaxCacheAgeDays) }

\* cleanupCache lines 67-98: the three directories in turn
CleanupCache(fs, t) ==
  CleanDir(CleanDir(CleanDir(fs, "images", t), "videos", t), "transcoded", t)

VARIABLES
  cacheFiles,   \* the files of the three cache directories
  clock,   \* Date.now(), in days
  calls,   \* the processMediaUrl calls made, oldest first
  sweep,   \* the last cleanupCache run: its time, the files before and after
  resolution  \* a locator and Content-Type, and what downloadMedia makes of them

cacheVars == <<cacheFiles, clock, calls, sweep, resolution>>

\* a locator and a Content-Type not yet resolved
Unresolved(url, contentType) ==
  [done |-> FALSE, url |-> url, contentType |-> contentType, isVideo |-> FALSE,
   extension |-> << >>]

NoSweep == [done |-> FALSE, at |-> 0, before |-> {}, after |-> {}]

InitCache ==
  /\ cacheFiles = {} /\ clock = 0 /\ calls = <<>> /\ sweep = NoSweep
  /\ resolution = Unresolved(UrlMedia, NoType)

\* ------------------------------------------------------------------ state
VARIABLES
  postServices,       \* this.postServices
  imagesPerInterval,  \* this.imagesPerInterval
  queue,              \* this.queueData.queue
  disk,               \* the queue file, its backup and the temp file
  now,                \* the last Date.now() handed to an item
  up,                 \* the process is running
  faults,             \* failed writes and crashes so far
  ret,                \* the last operation and what it returned
  lastLoad,           \* what the last loadQueueFromDisk produced
  tickLog,            \* the post attempts of the last scheduler tick
  passStart,          \* the queue when the last pass of that tick began
  crash,              \* the queue file before, and the queue of, a save that died
  cronSchedule,       \* this.cronSchedule
  scheduledTask       \* this.scheduledTask

queueVars == <<postServices, imagesPerInterval, queue, disk, now, up, faults,
               ret, lastLoad, tickLog, passStart, crash, cronSchedule,
               scheduledTask>>

VARIABLES
  pendingLoad,  \* the loadQueueFromDisk call that initialize() has not finished
  writers,      \* the cache paths that have an open write stream
  saves         \* the saveQueueToDisk calls started by timers and shutdown

asyncVars == <<pendingLoad, writers, saves>>

\* no load is in progress
NoPending == [phase |-> "done", content |-> Absent]

\* nothing is in flight: the initial load is over, no download is being
\* written, no save was started on its own
InitAsync == pendingLoad = NoPending /\ writers = {} /\ saves = <<>>

vars == <<queueVars, cacheVars, asyncVars>>

NoLoad == [queue |-> <<>>, primary |-> Absent, via |-> "none"]
NoCrash == [prev |-> Absent, new |-> Absent]

\* op: the operation; ok: it reported success (true, or an item);
\* save: how its saveQueueToDisk call ended ("none": it made none)
Ret(op, ok, save) == [op |-> op, ok |-> ok, save |-> save]

\* constructor and initialize, lines 7-36: load, then initializeServiceTracking
\* and the save it starts when it changed an item
Boot(d, discordEnabled) ==
  LET services == PostServicesOf(discordEnabled)
      l == LoadQueueFromDisk(d, "ok")
      q == InitializeServiceTracking(l.queue, services)
  IN [services |-> services, load |-> l, queue |-> q,
      disk |-> IF q # l.queue THEN SaveQueueToDisk(q, l.disk, "ok").disk ELSE l.disk]

LoadGhost(l) == [queue |-> l.queue, primary |-> l.disk.primary, via |-> l.via]

\* the state after construction, the queue file and its backup holding one
\* of files and config.imagesPerInterval being one of perTick
InitWith(files, perTick) ==
  \E f \in files, e \in BOOLEAN, n \in perTick :
    LET b == Boot(Files(f, f, Absent), e) IN
    /\ postServices = b.services
    /\ imagesPerInterval = JsInt(n)
    /\ cronSchedule = DefaultCronSchedule
    /\ scheduledTask = StartScheduler(NoTask, DefaultCronSchedule)
    /\ queue = b.queue
    /\ disk = b.disk
    /\ now = 0
    /\ up = TRUE
    /\ faults = 0
    /\ ret = Ret("start", TRUE, "none")
    /\ lastLoad = LoadGhost(b.load)
    /\ tickLog = <<>>
    /\ passStart = <<>>
    /\ crash = NoCrash
    /\ InitAsync

\* a first start (no files yet), any imagesPerInterval
Init == InitWith({Absent}, 1..MaxPerTick) /\ InitCache

\* a first start, or a start over the files of the single-service version
InitRestart == InitWith(InitialFiles, {1}) /\ InitCache

\* a first start
InitFault == InitWith({Absent}, {1}) /\ InitCache

\* this process posts to Discord as well
DiscordEnabled == "discord" \in Range(postServices)

\* a save that fails or dies counts against the fault budget
Budget(o) ==
  /\ o # "ok" => faults < MaxFaults
  /\ faults' = IF o = "ok" THEN faults ELSE faults + 1

\* the effect of an operation's save on the files and on the process
Saved(q1, sv) ==
  /\ disk' = sv.disk
  /\ up' = ~sv.crashed
  /\ crash' = IF sv.crashed THEN [prev |-> disk.primary, new |-> Ser(q1)] ELSE NoCrash

\* ---------------------------------------------------------------- actions
\* addToQueue lines 156-193; o is how its save ends
AddToQueue(imageData, o) ==
  /\ up /\ Len(queue) < MaxQueue /\ now < MaxClock
  /\ Budget(o)
  /\ now' = now + 1
  /\ LET q1 == Append(queue, NewItem(imageData, now + 1, postServices))
         sv == SaveQueueToDisk(q1, disk, o)
     IN /\ queue' = q1
        /\ Saved(q1, sv)
        /\ ret' = Ret("add", TRUE, SaveStatus(sv))
  /\ lastLoad' = NoLoad /\ tickLog' = <<>> /\ passStart' = <<>>
  /\ UNCHANGED <<postServices, imagesPerInterval, cronSchedule, scheduledTask,
               cacheVars, asyncVars>>

\* a call of markPostedByService(index, service)
MarkPosted(index, service, o) ==
  /\ up
  /\ Budget(o)
  /\ LET m == MarkPostedByService(queue, postServices, index, service, disk, o)
     IN /\ m.save = "none" => o = "ok"
        /\ queue' = m.queue
        /\ disk' = m.disk
        /\ up' = (m.save # "crashed")
        /\ crash' = IF m.save = "crashed"
                      THEN [prev |-> disk.primary, new |-> Ser(m.queue)] ELSE NoCrash
        /\ ret' = Ret("mark", m.ok, m.save)
  /\ lastLoad' = NoLoad /\ tickLog' = <<>> /\ passStart' = <<>>
  /\ UNCHANGED <<postServices, imagesPerInterval, now, cronSchedule, scheduledTask,
               cacheVars, asyncVars>>

\* a call of removeFromQueue(index)
Remove(index, o) ==
  /\ up
  /\ Budget(o)
  /\ LET m == RemoveFromQueue(queue, index, disk, o)
     IN /\ m.save = "none" => o = "ok"
        /\ queue' = m.queue
        /\ disk' = m.disk
        /\ up' = (m.save # "crashed")
        /\ crash' = IF m.save = "crashed"
                      THEN [prev |-> disk.primary, new |-> Ser(m.queue)] ELSE NoCrash
        /\ ret' = Ret("remove", m.ok, m.save)
  /\ lastLoad' = NoLoad /\ tickLog' = <<>> /\ passStart' = <<>>
  /\ UNCHANGED <<postServices, imagesPerInterval, now, cronSchedule, scheduledTask,
               cacheVars, asyncVars>>

\* the 'top' callback of bot/telegramBot.js lines 689-715
MoveToTop(index, o) ==
  /\ up
  /\ Budget(o)
  /\ IF index > 0 /\ index < Len(queue)
       THEN LET q1 == MoveToFront(queue, index)
                sv == SaveQueueToDisk(q1, disk, o)
            IN /\ queue' = q1
               /\ Saved(q1, sv)
               /\ ret' = Ret("top", TRUE, SaveStatus(sv))
       ELSE /\ o = "ok"
            /\ UNCHANGED <<queue, disk, up, crash>>
            /\ ret' = Ret("top", FALSE, "none")
  /\ lastLoad' = NoLoad /\ tickLog' = <<>> /\ passStart' = <<>>
  /\ UNCHANGED <<postServices, imagesPerInterval, now, cronSchedule, scheduledTask,
               cacheVars, asyncVars>>

\* what the post functions resolve to in the passes of one tick
PostResults(n) == [ 1..n -> [Range(postServices) -> BOOLEAN] ]

\* one firing of the cron callback of startScheduler, lines 337-382
Tick(posts) ==
  /\ up /\ scheduledTask.running
  /\ LET r == TickPasses([queue |-> queue, disk |-> disk, log |-> <<>>,
                          any |-> FALSE, start |-> <<>>],
                         postServices, 1, LoopCount(imagesPerInterval), posts)
     IN /\ queue' = r.queue
        /\ disk' = r.disk
        /\ tickLog' = r.log
        /\ passStart' = r.start
        /\ ret' = Ret("tick", r.log # <<>>, "none")
  /\ lastLoad' = NoLoad
  /\ UNCHANGED <<postServices, imagesPerInterval, now, up, faults, crash, cronSchedule, scheduledTask,
               cacheVars, asyncVars>>

\* the /schedule command of bot/telegramBot.js lines 475-497 with an
\* expression: setCronSchedule and the reply
Schedule(schedule) ==
  /\ up
  /\ LET r == SetCronSchedule(scheduledTask, cronSchedule, schedule)
     IN /\ scheduledTask' = r.task
        /\ cronSchedule' = r.cronSchedule
        /\ ret' = Ret("schedule", r.ok, "none")
  /\ lastLoad' = NoLoad /\ tickLog' = <<>> /\ passStart' = <<>>
  /\ UNCHANGED <<postServices, imagesPerInterval, queue, disk, now, up, faults,
                 crash, cacheVars, asyncVars>>

\* a call of setImagesPerInterval(count)
SetCount(count) ==
  /\ up
  /\ LET r == SetImagesPerInterval(imagesPerInterval, count)
     IN /\ imagesPerInterval' = r.imagesPerInterval
        /\ ret' = Ret("setcount", r.ok, "none")
  /\ lastLoad' = NoLoad /\ tickLog' = <<>> /\ passStart' = <<>>
  /\ UNCHANGED <<postServices, queue, disk, now, up, faults, crash, cronSchedule,
                 scheduledTask, cacheVars, asyncVars>>

\* what can happen to a file of the store while the process is down: it is
\* left alone, overwritten with something that is not JSON, overwritten with
\* a JSON document that has no queue array, or deleted
DamageKinds == {"keep", "garbage", "noqueue", "absent"}

Damaged(f, k) ==
  CASE k = "keep" -> f
    [] k = "garbage" -> Garbage
    [] k = "noqueue" -> NoQueueDoc
    [] k = "absent" -> Absent

\* the process ends (or has died) and is started again: constructor and
\* initialize over the files as they then are (pk, bk: what happened to the
\* queue file and to its backup meanwhile), with the new environment's
\* configuration
Restart(discordEnabled, pk, bk) ==
  /\ LET d == [disk EXCEPT !.primary = Damaged(disk.primary, pk),
                           !.backup = Damaged(disk.backup, bk)]
         b == Boot(d, discordEnabled)
     IN /\ postServices' = b.services
        /\ queue' = b.queue
        /\ disk' = b.disk
        /\ lastLoad' = LoadGhost(b.load)
  /\ up' = TRUE
  /\ ret' = Ret("restart", TRUE, "none")
  /\ tickLog' = <<>> /\ passStart' = <<>>
  /\ cronSchedule' = DefaultCronSchedule
  /\ scheduledTask' = StartScheduler(NoTask, DefaultCronSchedule)
  /\ UNCHANGED <<imagesPerInterval, now, faults, crash, cacheVars, asyncVars>>

\* what is remembered of a processMediaUrl call that ended at time t with
\* result r; written: the file at the returned path was completely written
\* when the call returned
CallRecord(url, isVideoArg, t, r) ==
  [url |-> url, isVideoArg |-> isVideoArg, at |-> t, ok |-> r.ok,
   localPath |-> r.localPath, probes |-> r.probes,
   downloads |-> r.downloads, transcodes |-> r.transcodes,
   written |-> \E f \in r.files : PathOf(f) = r.localPath /\ f.complete]

\* a call of processMediaUrl(url, isVideoArg) and what the hosts and the
\* encoder answer during it
Process(url, isVideoArg, head, get, getType, enc) ==
  /\ Len(calls) < MaxCalls
  /\ \E r \in {ProcessMediaUrl(cacheFiles, url, isVideoArg, clock, head, get, getType, enc)} :
        /\ cacheFiles' = r.files
        /\ calls' = Append(calls, CallRecord(url, isVideoArg, clock, r))
  /\ UNCHANGED <<clock, sweep, resolution, queueVars, asyncVars>>

\* a day passes
AdvanceClock ==
  /\ clock < MaxTime
  /\ clock' = clock + 1
  /\ UNCHANGED <<cacheFiles, calls, sweep, resolution, queueVars, asyncVars>>

\* a run of cleanupCache (at startup, daily, or by the /cleancache command)
\* that meets no I/O error
Cleanup ==
  /\ cacheFiles' = CleanupCache(cacheFiles, clock)
  /\ sweep' = [done |-> TRUE, at |-> clock, before |-> cacheFiles,
               after |-> CleanupCache(cacheFiles, clock)]
  /\ UNCHANGED <<clock, calls, resolution, queueVars, asyncVars>>

\* lines 244-251 of downloadMedia: the kind and the extension for a locator
\* not known to be a video and the Content-Type its host answered with
Resolve ==
  /\ ~resolution.done
  /\ resolution' =
       [resolution EXCEPT
          !.done = TRUE,
          !.isVideo = IsVideoUrl(resolution.url, resolution.contentType),
          !.extension = GetFileExtension(resolution.url, resolution.contentType)]
  /\ UNCHANGED <<cacheFiles, clock, calls, sweep, queueVars, asyncVars>>

\* the Content-Type values handed to the resolver
ResolverTypes == {NoType, "image/bmp"} \cup ContentTypes

\* the cache with its eviction sweep, over downloads that may leave partial
\* files
NextSweep ==
  \/ \E url \in {UrlMedia, UrlClip}, head \in {"fails", "image/png"},
        get \in {"ok", "writerError"}, enc \in {"ok", "fails"} :
       Process(url, FALSE, head, get, NoType, enc)
  \/ AdvanceClock
  \/ Cleanup

NextCache ==
  \/ \E url \in Locators, v \in BOOLEAN, head \in HeadResults, get \in GetResults,
        getType \in {NoType, "image/png"}, enc \in EncResults :
       Process(url, v, head, get, getType, enc)
  \/ AdvanceClock

\* a link handler of the bot: the scraper has the medium cached
\* (processMediaUrl) and the item that carries the returned path is enqueued
\* (scraper return value, unnamed/part_000 lines 67-79; addToQueue)
Submit(url, head, get, enc) ==
  /\ up /\ Len(queue) < MaxQueue /\ now < MaxClock /\ Len(calls) < MaxCalls
  /\ \E r \in {ProcessMediaUrl(cacheFiles, url, TRUE, clock, head, get, NoType, enc)} :
       /\ cacheFiles' = r.files
       /\ calls' = Append(calls, CallRecord(url, TRUE, clock, r))
       /\ IF r.ok
            THEN \E q1 \in {Append(queue,
                               NewItem([title |-> "a", originalImageUrl |-> "http://a",
                                        videoUrl |-> r.localPath],
                                       now + 1, postServices))} :
                   /\ queue' = q1
                   /\ Saved(q1, SaveQueueToDisk(q1, disk, "ok"))
                   /\ now' = now + 1
                   /\ ret' = Ret("add", TRUE, "saved")
            ELSE /\ UNCHANGED <<queue, disk, up, crash, now>>
                 /\ ret' = Ret("submit", FALSE, "none")
  /\ lastLoad' = NoLoad /\ tickLog' = <<>> /\ passStart' = <<>>
  /\ UNCHANGED <<postServices, imagesPerInterval, faults, cronSchedule,
                 scheduledTask, clock, sweep, resolution, asyncVars>>

\* downloadMedia lines 212-285 for a locator that is not cached: the HEAD
\* probe, the GET, and createWriteStream at the cache path; the body is
\* still being piped into the file
BeginDownload(url, head) ==
  /\ Len(calls) + Cardinality(writers) < MaxCalls
  /\ \E d \in {DownloadMedia(cacheFiles, url, FALSE, clock, head, "ok", NoType)} :
       /\ d.downloads = 1 /\ ~d.isVideo
       /\ cacheFiles' = WriteFile(cacheFiles, d.filePath, clock, FALSE)
       /\ writers' = writers \cup {[url |-> url, path |-> d.filePath]}
  /\ UNCHANGED <<clock, calls, sweep, resolution, queueVars, pendingLoad, saves>>

\* downloadMedia lines 288-290: the writer's 'finish' event resolves the call
FinishDownload ==
  \E w \in writers :
    /\ writers' = writers \ {w}
    /\ cacheFiles' = WriteFile(cacheFiles, w.path, clock, TRUE)
    /\ calls' = Append(calls,
         CallRecord(w.url, FALSE, clock,
                    [files |-> WriteFile(cacheFiles, w.path, clock, TRUE),
                     ok |-> TRUE, localPath |-> w.path, probes |-> 1,
                     downloads |-> 1, transcodes |-> 0]))
    /\ UNCHANGED <<clock, sweep, resolution, queueVars, pendingLoad, saves>>

\* the timer of startAutoSave fires, lines 82-86: a save starts
AutoSave ==
  /\ up /\ scheduledTask # NoTask \* stopScheduler clears the timer with the task
  /\ Len(saves) < MaxSaves
  /\ saves' = Append(saves, StartSave(queue))
  /\ UNCHANGED <<queueVars, cacheVars, pendingLoad, writers>>

\* shutdown lines 409-412: stopScheduler starts a save that nobody awaits,
\* then shutdown starts its own
Shutdown ==
  /\ up /\ scheduledTask # NoTask
  /\ Len(saves) + 2 <= MaxSaves
  /\ scheduledTask' = NoTask
  /\ saves' = saves \o <<StartSave(queue), StartSave(queue)>>
  /\ ret' = Ret("shutdown", TRUE, "none")
  /\ lastLoad' = NoLoad /\ tickLog' = <<>> /\ passStart' = <<>>
  /\ UNCHANGED <<postServices, imagesPerInterval, queue, disk, now, up, faults,
                 crash, cronSchedule, cacheVars, pendingLoad, writers>>

\* the i-th started save goes on to its next await
SaveProgress(i) ==
  /\ i \in DOMAIN saves /\ saves[i].pc # "done"
  /\ \E r \in {SaveStep(saves[i], queue, disk)} :
       /\ saves' = [saves EXCEPT ![i] = r.save]
       /\ disk' = r.disk
  /\ UNCHANGED <<postServices, imagesPerInterval, queue, now, up, faults, ret,
                 lastLoad, tickLog, passStart, crash, cronSchedule,
                 scheduledTask, cacheVars, pendingLoad, writers>>

Indexes == (-1)..MaxQueue

\* the store in normal operation, under one configuration
Next ==
  \/ AddToQueue(PlainPayload, "ok")
  \/ \E i \in Indexes, s \in ServiceNames : MarkPosted(i, s, "ok")
  \/ \E i \in Indexes : Remove(i, "ok")
  \/ \E i \in Indexes : MoveToTop(i, "ok")
  \/ \E posts \in PostResults(LoopCount(imagesPerInterval)) : Tick(posts)

Spec == Init /\ [][Next]_vars

\* restarts: the files may have been damaged and the configuration changed
NextRestart ==
  \/ \E p \in Payloads : AddToQueue(p, "ok")
  \/ \E i \in Indexes, s \in ServiceNames : MarkPosted(i, s, "ok")
  \/ \E e \in BOOLEAN, pk \in DamageKinds, bk \in DamageKinds : Restart(e, pk, bk)

SpecRestart == InitRestart /\ [][NextRestart]_vars

\* failing writes and a process that dies in a save, under one configuration
NextFault ==
  \/ \E o \in SaveOutcomes \cup CrashPoints : AddToQueue(PlainPayload, o)
  \/ \E i \in 0..1, s \in ServiceSet, o \in SaveOutcomes \cup CrashPoints :
       MarkPosted(i, s, o)
  \/ \E i \in 0..1, o \in SaveOutcomes \cup CrashPoints : Remove(i, o)
  \/ Restart(DiscordEnabled, "keep", "keep")

SpecFault == InitFault /\ [][NextFault]_vars

\* the arguments handed to setImagesPerInterval
Counts ==
  { JsNumber(k) : k \in (-2)..(2 * MaxPerTick + 1) } \cup {NaN, JsString(2)}

\* the scheduler and its configuration: items arrive, the schedule and the
\* items-per-tick count are set, the cron task fires while it runs
NextConfig ==
  \/ AddToQueue(PlainPayload, "ok")
  \/ \E e \in CronExprs : Schedule(e)
  \/ \E c \in Counts : SetCount(c)
  \/ \E posts \in PostResults(LoopCount(imagesPerInterval)) : Tick(posts)

SpecConfig == InitFault /\ [][NextConfig]_vars

\* the scheduler left to itself: items arrive and the cron task fires, nobody
\* marks, removes or reorders by hand
NextDeliver ==
  \/ AddToQueue(PlainPayload, "ok")
  \/ \E posts \in PostResults(LoopCount(imagesPerInterval)) : Tick(posts)

SpecDeliver == Init /\ [][NextDeliver]_vars

\* the items found in the queue file by InitStored, enqueued before the
\* start (ids 1 - MaxStored .. 0, oldest first)
StoredQueue ==
  [ i \in 1..MaxStored |-> NewItem(PlainPayload, i - MaxStored, PostServicesOf(TRUE)) ]

\* a start over a queue file that holds MaxStored undelivered items
InitStored == InitWith({Ser(StoredQueue)}, {1}) /\ InitCache

StoredIndexes == (-1)..(MaxStored + 1)

\* the operator's view of a loaded queue: remove, move to top, mark and add
NextOrder ==
  \/ AddToQueue(PlainPayload, "ok")
  \/ \E i \in StoredIndexes, s \in ServiceNames : MarkPosted(i, s, "ok")
  \/ \E i \in StoredIndexes : Remove(i, "ok")
  \/ \E i \in StoredIndexes : MoveToTop(i, "ok")

SpecOrder == InitStored /\ [][NextOrder]_vars

\* the constructor has returned, lines 7-24: the queue in memory is empty and
\* initialize() waits in loadQueueFromDisk for the queue file
InitBoot ==
  /\ \E f \in InitialFiles, e \in BOOLEAN :
       /\ postServices = PostServicesOf(e)
       /\ disk = Files(f, f, Absent)
  /\ imagesPerInterval = JsInt(1)
  /\ cronSchedule = DefaultCronSchedule
  /\ scheduledTask = NoTask
  /\ queue = <<>>
  /\ now = 0
  /\ up = TRUE
  /\ faults = 0
  /\ ret = Ret("construct", TRUE, "none")
  /\ lastLoad = NoLoad
  /\ tickLog = <<>>
  /\ passStart = <<>>
  /\ crash = NoCrash
  /\ pendingLoad = [phase |-> "reading", content |-> Absent]
  /\ writers = {}
  /\ saves = <<>>
  /\ InitCache

\* loadQueueFromDisk lines 95-97: pathExists and readJson have looked at the
\* queue file; the code after the await has not run yet
ReadQueueFile ==
  /\ up /\ pendingLoad.phase = "reading"
  /\ pendingLoad' = [phase |-> "read", content |-> disk.primary]
  /\ UNCHANGED <<queueVars, cacheVars, writers, saves>>

\* loadQueueFromDisk lines 98-125 and initialize lines 28-35 resume with
\* what was read: this.queueData is replaced, then service tracking runs
InstallLoaded ==
  /\ up /\ pendingLoad.phase = "read"
  /\ \E b \in {Boot([disk EXCEPT !.primary = pendingLoad.content], DiscordEnabled)} :
       /\ queue' = b.queue
       /\ disk' = IF b.load.via = "primary" /\ b.queue = b.load.queue
                    THEN disk ELSE b.disk
       /\ lastLoad' = LoadGhost(b.load)
  /\ pendingLoad' = NoPending
  /\ ret' = Ret("load", TRUE, "none")
  /\ tickLog' = <<>> /\ passStart' = <<>>
  /\ UNCHANGED <<postServices, imagesPerInterval, now, up, faults, crash,
                 cronSchedule, scheduledTask, cacheVars, writers, saves>>

\* the start of the process: links arrive while the initial load is under way
NextBoot ==
  \/ \E p \in Payloads : AddToQueue(p, "ok")
  \/ ReadQueueFile
  \/ InstallLoaded

SpecBoot == InitBoot /\ [][NextBoot]_vars

\* the media cache alone, the queue store left as a first start leaves it
InitMedia == InitWith({Absent}, {1}) /\ postServices = <<"telegram">> /\ InitCache

SpecCache == InitMedia /\ [][NextCache]_vars

SpecSweep == InitMedia /\ [][NextSweep]_vars

\* links are submitted, days pass, the sweep runs and the cron task fires;
\* every request and every transcode succeeds
NextPost ==
  \/ \E url \in {UrlMedia, UrlClip} : Submit(url, "video/mp4", "ok", "ok")
  \/ AdvanceClock
  \/ Cleanup
  \/ \E posts \in PostResults(LoopCount(imagesPerInterval)) : Tick(posts)

SpecPost == InitMedia /\ [][NextPost]_vars

\* calls of processMediaUrl that overlap: a download is in flight while
\* other calls run; every request succeeds and no write fails
NextOverlap ==
  \/ \E url \in {UrlMedia, UrlPngQuery} : BeginDownload(url, "image/png")
  \/ FinishDownload
  \/ \E url \in {UrlMedia, UrlPngQuery} :
       Process(url, FALSE, "image/png", "ok", NoType, "ok")
  \/ AdvanceClock

SpecOverlap == InitMedia /\ [][NextOverlap]_vars

\* saves in flight together: the auto-save timer and shutdown start saves
\* while items are enqueued; no write fails by itself
NextSaves ==
  \/ AddToQueue(PlainPayload, "ok")
  \/ AutoSave
  \/ Shutdown
  \/ \E i \in 1..MaxSaves : SaveProgress(i)

SpecSaves == InitFault /\ [][NextSaves]_vars

\* the resolver alone, over every locator and Content-Type of the model
InitResolve ==
  /\ InitWith({Absent}, {1}) /\ postServices = <<"telegram">>
  /\ cacheFiles = {} /\ clock = 0 /\ calls = <<>> /\ sweep = NoSweep
  /\ \E u \in ResolverLocators, ct \in ResolverTypes : resolution = Unresolved(u, ct)

SpecResolve == InitResolve /\ [][Resolve]_vars

\* ================================================================= claims

\* C1: with a fixed set of configured destinations, markPostedByService(i, d)
\* for a valid index i and a configured destination d sets postedTo[d] on the
\* item at i and removes that item exactly when postedTo is then true for
\* every configured destination; otherwise the item stays where it is.
C1_MarkRemovesIffAllPosted ==
  [][ \A i \in 0..(MaxQueue - 1), d \in ServiceSet :
        (MarkPosted(i, d, "ok") /\ i < Len(queue) /\ d \in Range(postServices)) =>
          LET flagged == [queue[i + 1] EXCEPT !.postedTo[d] = TRUE]
              stays == \E s \in Range(postServices) : ~flagged.postedTo[s]
          IN /\ ret'.ok
             /\ IF stays
                  THEN queue' = [queue EXCEPT ![i + 1] = flagged]
                  ELSE queue' = SubSeq(queue, 1, i) \o SubSeq(queue, i + 2, Len(queue))
    ]_vars

\* with {telegram, discord}: an item marked for telegram only is still queued
C1_Witness ==
  /\ ret.op = "mark" /\ ret.ok
  /\ postServices = <<"telegram", "discord">>
  /\ \E i \in DOMAIN queue :
       queue[i].postedTo = [telegram |-> TRUE, discord |-> FALSE]

\* C2: no item that is still in the queue has postedTo true for every
\* currently configured destination.
C2_NoFullyDeliveredItemQueued ==
  \A i \in DOMAIN queue : ~AllPosted(queue[i], postServices)

\* the attempts of pass p of the last tick all failed
PassFailed(p) == \A k \in DOMAIN tickLog : tickLog[k].pass = p => ~tickLog[k].ok

\* C3: when no destination succeeds for the front item in a pass of a tick,
\* the tick ends with that pass: no attempt follows it, its attempts were all
\* for the item at the front, and the pass left the queue as it found it.
C3_FailedPassEndsTick ==
  ret.op = "tick" =>
    \A k \in DOMAIN tickLog :
      PassFailed(tickLog[k].pass) =>
        /\ \A j \in DOMAIN tickLog : tickLog[j].pass <= tickLog[k].pass
        /\ tickLog[k].id = passStart[1].id
        /\ queue = passStart
        /\ disk.primary = Ser(queue)

\* a tick of several items-per-tick over several items whose first pass failed
C3_Witness ==
  /\ ret.op = "tick" /\ LoopCount(imagesPerInterval) > 1 /\ Len(queue) > 1
  /\ tickLog # <<>> /\ PassFailed(1)

\* the fields an item can carry
ItemFields == StringFields \cup {"id", "timestamp", "postedTo", "sourceImgUrl"}

\* reading field f of the item gives a value other than undefined
HasValue(item, f) == f \in DOMAIN item /\ (f \in StringFields => item[f] # Undefined)

SameField(a, b, f) ==
  /\ HasValue(a, f) <=> HasValue(b, f)
  /\ HasValue(a, f) => a[f] = b[f]

SameItems(q1, q2) ==
  /\ Len(q1) = Len(q2)
  /\ \A i \in DOMAIN q1 : \A f \in ItemFields : SameField(q1[i], q2[i], f)

\* C4: once addToQueue has returned after a successful save, a restart loads
\* from the files a queue with the same items in the same order, each with
\* the same value in every field (payload, id, timestamp, delivery flags).
C4_AddSurvivesRestart ==
  [][ \A e \in BOOLEAN :
        (ret.op = "add" /\ ret.save = "saved" /\ Restart(e, "keep", "keep")) =>
          /\ lastLoad'.via = "primary"
          /\ SameItems(lastLoad'.queue, queue)
    ]_vars

\* a restart has loaded, from the queue file, an item added with a name of
\* undefined
C4_Witness ==
  /\ ret.op = "restart" /\ lastLoad.via = "primary"
  /\ \E i \in DOMAIN lastLoad.queue :
       lastLoad.queue[i].title = "a" /\ lastLoad.queue[i].id > 0

\* C5: when the queue file exists and is not parseable JSON and the backup
\* holds a valid queue document, loadQueueFromDisk takes the backup's queue
\* and rewrites the queue file, which then holds that same document.
C5_BackupRecovery ==
  [][ \A e \in BOOLEAN :
        (Restart(e, "garbage", "keep") /\ ValidQueueFile(disk.backup)) =>
          /\ lastLoad'.via = "backup"
          /\ lastLoad'.queue = disk.backup.queue
          /\ lastLoad'.primary = disk.backup
    ]_vars

\* a load has recovered a non-empty queue from the backup
C5_Witness ==
  /\ ret.op = "restart" /\ lastLoad.via = "backup"
  /\ Len(lastLoad.queue) > 0
  /\ lastLoad.primary = Ser(lastLoad.queue)

\* C6: loadQueueFromDisk starts from an empty queue only when neither the
\* queue file nor the backup yields a valid queue document; a valid backup
\* is used whenever the queue file cannot be, and is never overwritten with
\* an empty queue.
C6_FreshOnlyOnTotalFailure ==
  [][ \A e \in BOOLEAN, pk \in DamageKinds, bk \in DamageKinds :
        (Restart(e, pk, bk) /\ lastLoad'.via = "fresh") =>
          /\ ~ValidQueueFile(Damaged(disk.primary, pk))
          /\ ~ValidQueueFile(Damaged(disk.backup, bk))
    ]_vars

\* C7: a process that dies inside saveQueueToDisk never leaves a partly
\* written queue file, leaves a complete document in the queue file or in the
\* backup, and the load after the restart yields the queue the queue file
\* held before that save or the queue that was being saved.
C7_CrashSafeSave ==
  /\ disk.primary.kind # "garbage"
  /\ ~up => (ValidQueueFile(disk.primary) \/ ValidQueueFile(disk.backup))
  /\ (ret.op = "restart" /\ crash # NoCrash /\ ValidQueueFile(crash.prev)) =>
       Ser(lastLoad.queue) \in {crash.prev, crash.new}

C9_FailedSaveIsReported ==
  ret.save = "failed" => (up /\ ~ret.ok)

\* the last two processMediaUrl calls were for the same locator with the
\* same argument, both resolved, the first one downloaded the file and the
\* second came within the validity window of that file
RepeatedCall ==
  /\ Len(calls) >= 2
  /\ LET a == calls[Len(calls) - 1]
         b == calls[Len(calls)]
     IN /\ a.url = b.url /\ a.isVideoArg = b.isVideoArg
        /\ a.ok /\ b.ok /\ a.downloads = 1
        /\ b.at - a.at <= MaxCacheAgeDays

\* C10: two sequential calls of processMediaUrl for one locator within the
\* cache validity window return the same localPath, and the second makes no
\* network request (no probe, no download) and no transcoding.
C10_IdempotentCaching ==
  RepeatedCall =>
    LET a == calls[Len(calls) - 1]
        b == calls[Len(calls)]
    IN /\ b.localPath = a.localPath
       /\ b.probes = 0 /\ b.downloads = 0 /\ b.transcodes = 0

\* C16: setCronSchedule with an invalid expression returns false and keeps
\* the prior schedule: cronSchedule is unchanged and the cron task is as it
\* was, so a scheduler that was running keeps running.
C16_InvalidScheduleKeepsPrior ==
  [][ \A e \in CronExprs :
        (Schedule(e) /\ ~CronValidate(e)) =>
          /\ ~ret'.ok
          /\ cronSchedule' = cronSchedule
          /\ scheduledTask' = scheduledTask
    ]_vars

\* C17: after the schedule was set to a valid expression while the scheduler
\* was running, the scheduler is running, on the new expression.
C17_ScheduleChangeKeepsPosting ==
  [][ \A e \in CronExprs :
        (Schedule(e) /\ CronValidate(e) /\ scheduledTask.running) =>
          /\ ret'.ok
          /\ scheduledTask'.running
          /\ scheduledTask'.schedule = e
    ]_vars

\* C18: setImagesPerInterval(n) returns true and stores n for a positive
\* integer n; for every other argument it returns false and leaves
\* imagesPerInterval as it was.
C18_CountIsPositiveInteger ==
  [][ \A c \in Counts :
        SetCount(c) =>
          IF IsPositiveInteger(c)
            THEN ret'.ok /\ imagesPerInterval' = c
          ELSE ~ret'.ok /\ imagesPerInterval' = imagesPerInterval
    ]_vars

\* C19: every item in the queue has a postedTo map with a boolean entry for
\* every currently configured destination.
C19_PostedToCoversServices ==
  \A i \in DOMAIN queue :
    /\ "postedTo" \in DOMAIN queue[i]
    /\ \A s \in Range(postServices) :
         /\ s \in DOMAIN queue[i].postedTo
         /\ queue[i].postedTo[s] \in BOOLEAN

C11_FailedFetchLeavesNoFile ==
  calls # <<>> =>
    LET c == calls[Len(calls)] IN
    (~c.ok /\ c.downloads = 1 /\ c.transcodes = 0) =>
      ~IsValidCacheFile(cacheFiles, c.localPath, clock)

\* C12: after a transcoding that failed, the next call for the same output
\* does not return the leftover output as a cache hit.
C12_FailedTranscodeIsNoCacheEntry ==
  Len(calls) >= 2 =>
    LET a == calls[Len(calls) - 1]
        b == calls[Len(calls)]
    IN (~a.ok /\ a.transcodes = 1 /\ b.localPath = a.localPath) =>
         ~(b.ok /\ b.transcodes = 0)

RECURSIVE FirstIndexOf(_, _, _)
FirstIndexOf(s, t, n) ==
  IF n > Len(s) THEN 0 ELSE IF s[n] = t THEN n ELSE FirstIndexOf(s, t, n + 1)

\* the locator's own extension: that of the last segment of its path, the
\* query string and the host not being part of the path
OwnExtension(url) ==
  LET q == FirstIndexOf(url, "?", 1)
      u == IF q = 0 THEN url ELSE SubSeq(url, 1, q - 1)
      p == FirstIndexOf(u, "/", 4)
  IN IF p = 0 THEN << >> ELSE LowerExt(ExtName(SubSeq(u, p, Len(u))))

\* the heuristics for locators: the video patterns
VideoPattern(url) ==
  \/ IncludesNoCase(url, <<"/", "video", "/">>)
  \/ IncludesNoCase(url, <<".", "mp4">>)
  \/ IncludesNoCase(url, <<".", "webm">>)
  \/ BlueskyThenVideo(url)

\* C14: the kind follows the priority order: a known video extension on the
\* locator means video; otherwise a supplied Content-Type decides (video/*
\* video, image/* image); otherwise the locator patterns; otherwise image.
C14_KindPriority ==
  resolution.done =>
    LET ct == resolution.contentType IN
    resolution.isVideo =
      IF OwnExtension(resolution.url) \in VideoExtensions THEN TRUE
      ELSE IF ct # NoType /\ StartsWithVideo(Lower(ct)) THEN TRUE
      ELSE IF ct # NoType /\ StartsWithImage(Lower(ct)) THEN FALSE
      ELSE VideoPattern(resolution.url)

\* C15: the extension is the locator's own when it has one; otherwise the
\* canonical one of a known Content-Type; otherwise .jpg for another image/*,
\* .mp4 for another video/*, and .bin.
C15_ExtensionFallback ==
  resolution.done =>
    LET ct == resolution.contentType
        own == OwnExtension(resolution.url)
    IN resolution.extension =
         IF Len(own) > 1 THEN own
         ELSE IF ct = NoType THEN <<".", "bin">>
         ELSE IF Lower(ct) \in {"image/jpeg", "image/jpg"} THEN <<".", "jpg">>
         ELSE IF Lower(ct) = "image/png" THEN <<".", "png">>
         ELSE IF Lower(ct) = "image/gif" THEN <<".", "gif">>
         ELSE IF Lower(ct) = "image/webp" THEN <<".", "webp">>
         ELSE IF Lower(ct) = "video/mp4" THEN <<".", "mp4">>
         ELSE IF Lower(ct) = "video/webm" THEN <<".", "webm">>
         ELSE IF StartsWithImage(ct) THEN <<".", "jpg">>
         ELSE IF StartsWithVideo(ct) THEN <<".", "mp4">>
         ELSE <<".", "bin">>

\* C22: removeFromQueue(index) removes exactly the item at index, returns it
\* and persists the queue when 0 <= index < length; for any other index it
\* returns null and leaves the queue unchanged.
C22_RemoveOnlyInRange ==
  [][\A i \in Indexes :
       Remove(i, "ok") =>
         IF i >= 0 /\ i < Len(queue)
           THEN /\ ret'.ok
                /\ Len(queue') = Len(queue) - 1
                /\ \A j \in 1..Len(queue') :
                     queue'[j] = IF j <= i THEN queue[j] ELSE queue[j + 1]
                /\ disk'.primary = Ser(queue')
           ELSE ~ret'.ok /\ queue' = queue /\ disk' = disk]_vars

\* C24: moving the item at index i to the front, 0 < i < length, only
\* reorders: the item is at index 0 afterwards, every other item keeps its
\* place relative to the others, no item and no flag changes, and the new
\* order is persisted; for i = 0 or an index out of range the queue and the
\* files are unchanged.
C24_MoveToFrontOnlyReorders ==
  [][\A i \in StoredIndexes :
       MoveToTop(i, "ok") =>
         IF i > 0 /\ i < Len(queue)
           THEN /\ Len(queue') = Len(queue)
                /\ queue'[1] = queue[i + 1]
                /\ \A j \in 2..Len(queue) :
                     queue'[j] = IF j <= i + 1 THEN queue[j - 1] ELSE queue[j]
                /\ disk'.primary = Ser(queue')
                /\ disk'.backup = Ser(queue')
           ELSE queue' = queue /\ disk' = disk]_vars

\* a partly delivered item was moved from the back of three to the front
C24_Witness ==
  /\ ret.op = "top" /\ ret.ok
  /\ Len(queue) = 3
  /\ queue[2].id < queue[3].id /\ queue[3].id < queue[1].id
  /\ \E s \in Range(postServices) : PostedFlag(queue[1], s)

\* the passes the last tick made
PassesMade == { tickLog[k].pass : k \in DOMAIN tickLog }

\* C23: a tick makes at most imagesPerInterval passes and hands an item to a
\* destination's post function only if that item's own flag for the
\* destination is false at the time of the call; so it makes at most
\* imagesPerInterval x destinations post attempts.
C23_TickBounded ==
  ret.op = "tick" =>
    /\ Cardinality(PassesMade) <= LoopCount(imagesPerInterval)
    /\ \A k \in DOMAIN tickLog : ~tickLog[k].flag
    /\ Len(tickLog) <= LoopCount(imagesPerInterval) * Len(postServices)

\* C25: the flag set after a successful post is set on the item that was
\* posted.
C25_MarkHitsPostedItem ==
  ret.op = "tick" =>
    \A k \in DOMAIN tickLog :
      tickLog[k].ok => tickLog[k].marked = {tickLog[k].id}

\* C26: no item is posted successfully to the same destination more than
\* once.
C26_NoDuplicatePost ==
  ret.op = "tick" =>
    \A j, k \in DOMAIN tickLog :
      ( /\ j < k
        /\ tickLog[j].id = tickLog[k].id
        /\ tickLog[j].service = tickLog[k].service
        /\ tickLog[j].ok )
      => ~tickLog[k].ok

\* the queued items are in the order in which they were enqueued
QueueInEnqueueOrder ==
  \A i, j \in DOMAIN queue : i < j => queue[i].id < queue[j].id

\* C21: with no item moved to the front, the queued items are in enqueue
\* order, and the scheduler hands to a post function only the item that is
\* at the front of the queue.
C21_FifoAndFrontOnly ==
  /\ QueueInEnqueueOrder
  /\ ret.op = "tick" =>
       \A k \in DOMAIN tickLog : tickLog[k].front = {tickLog[k].id}

\* C27: an item for which addToQueue returned true is in the queue until it
\* is removed or fully delivered; in particular it is still there when the
\* initial loadQueueFromDisk completes.  (Ids 1..now are the items accepted;
\* nothing removes or marks under SpecBoot.)
C27_AcceptedItemStaysQueued ==
  \A n \in 1..now : \E i \in DOMAIN queue : queue[i].timestamp = n

\* C28: every path a call returns refers to a completely written file; an
\* overlapping call for the same locator never gets the path of a file that
\* is still being downloaded.
C28_ReturnedFileIsComplete ==
  \A k \in DOMAIN calls : calls[k].ok => calls[k].written

\* the file the item's media path points to is in the cache
MediaCached(item, fs) == \E f \in fs : PathOf(f) = item.videoUrl

\* C29: whenever the scheduler hands a queued item to a post function, the
\* cache file the item's media path points to exists.
C29_PostedMediaExists ==
  [][(\E posts \in PostResults(LoopCount(imagesPerInterval)) : Tick(posts)) =>
       \A k \in DOMAIN tickLog' : \A j \in DOMAIN passStart' :
         passStart'[j].id = tickLog'[k].id => MediaCached(passStart'[j], cacheFiles)]_vars

\* C30: overlapping saves are safe: every saveQueueToDisk call in flight
\* with others completes successfully, the queue file is never partially
\* written, and once all have completed the queue file and its backup hold
\* the queue in memory.
C30_OverlappingSavesSucceed ==
  /\ \A i \in DOMAIN saves : saves[i].pc = "done" => saves[i].ok
  /\ disk.primary.kind # "garbage"
  /\ (saves # <<>> /\ \A i \in DOMAIN saves : saves[i].pc = "done") =>
       disk.primary = Ser(queue) /\ disk.backup = Ser(queue)

====
